---- MODULE Spec2Model ----
(***************************************************************************)
(* A model of astrid/main.py: the shared HudState, the StatefulController  *)
(* (intent classifier, reply generator, bounded conversation history), the *)
(* ConnectionManager (registry list and broadcast) and the coroutines that *)
(* drive them: one websocket_endpoint task per channel and the REST        *)
(* handlers.  The program runs on one asyncio event loop: a task runs      *)
(* without interruption from one `await` to the next, so every action      *)
(* below is the code between two awaits of one task.                       *)
(*                                                                         *)
(* Texts are sequences of one-character strings, floats are fixed-point    *)
(* numbers in tenths (76.0 is 760), Optional[str] is a sequence of length  *)
(* 0 (None) or 1.                                                          *)
(***************************************************************************)
EXTENDS Integers, Sequences, FiniteSets, TLC

\* ------------------------------------------------------------ bounds
NumChans == 3
MaxConnected == 2
NumRest == 2
SoloRest == 1
MaxInbound == 1
MaxFrames == 2
MaxRestOps == 1
MaxUpdFields == 2
MaxUpdates == 2
MaxAppends == 22
MaxCloses == 1
MaxUserMsgs == 1
MaxLogMsgs == 2
MaxClassified == 2
MaxInjections == 2
MaxDays == 30
MaxQueries == 2

\* ------------------------------------------------- program constants
HistoryCap == 20
MaintenanceInterval == 30
InitialMaintenanceAge == 7
NumPatterns == 3

\* active                the list ConnectionManager.active
\* hud                   the global STATE (a HudState)
\* conversation_history  controller.conversation_history
\* clock                 the number of readings of datetime.now() taken for
\*                       history entries (each entry's timestamp)
\* now                   whole days elapsed since the controller was built
\* task                  every coroutine's position and locals
\* recv                  per channel, the events its client was sent
\* closed                the channels whose client has gone away
\* inbound, restOps      frames and REST requests accepted so far
\* userMsgs              user_messages with text accepted so far
\* nextBid               the number the next call of broadcast gets
VARIABLES active, hud, conversation_history, clock, now, task, recv,
          closed, inbound, restOps, nextBid, userMsgs

vars == <<active, hud, conversation_history, clock, now, task, recv,
          closed, inbound, restOps, nextBid, userMsgs>>

\* ------------------------------------------------------------- texts
Whitespace == {" ", "\t", "\n"}

UpperToLower ==
    ("A" :> "a") @@ ("B" :> "b") @@ ("C" :> "c") @@ ("D" :> "d") @@ ("E" :> "e")
 @@ ("F" :> "f") @@ ("G" :> "g") @@ ("H" :> "h") @@ ("I" :> "i") @@ ("J" :> "j")
 @@ ("K" :> "k") @@ ("L" :> "l") @@ ("M" :> "m") @@ ("N" :> "n") @@ ("O" :> "o")
 @@ ("P" :> "p") @@ ("Q" :> "q") @@ ("R" :> "r") @@ ("S" :> "s") @@ ("T" :> "t")
 @@ ("U" :> "u") @@ ("V" :> "v") @@ ("W" :> "w") @@ ("X" :> "x") @@ ("Y" :> "y")
 @@ ("Z" :> "z")

\* str.lower()
Lower(s) ==
    [i \in 1..Len(s) |-> IF s[i] \in DOMAIN UpperToLower THEN UpperToLower[s[i]] ELSE s[i]]

RECURSIVE LStrip(_)
LStrip(s) ==
    IF s # <<>> /\ Head(s) \in Whitespace THEN LStrip(Tail(s)) ELSE s

RECURSIVE RStrip(_)
RStrip(s) ==
    IF s # <<>> /\ s[Len(s)] \in Whitespace THEN RStrip(SubSeq(s, 1, Len(s) - 1)) ELSE s

\* No strip() at all.
NoStrip(s) == s

\* str.lstrip() in place of strip()
StripLeftOnly(s) == LStrip(s)

\* str.strip()
Strip(s) == RStrip(LStrip(s))

\* Python's `word in message` on strings: a substring test.
Contains(s, w) ==
    \E i \in 1..(Len(s) - Len(w) + 1) : SubSeq(s, i, i + Len(w) - 1) = w

\* Optional[str]
None == <<>>
Some(x) == <<x>>

\* ---------------------------------------------------------- HudState
HudFields ==
    {"headline", "eve", "battery_pct", "load_w", "sun_w", "load_min_w",
     "load_max_w", "sun_min_w", "sun_max_w", "last_user_line",
     "bot_reply_pending"}

HudState ==
    [headline |-> "BRAM HOUSE",
     eve |-> "EVE",
     battery_pct |-> 760,
     load_w |-> 13440,
     sun_w |-> 80000,
     load_min_w |-> 0,
     load_max_w |-> 50000,
     sun_min_w |-> 0,
     sun_max_w |-> 80000,
     last_user_line |->
        <<"H", "E", "L", "L", "O", " ", "A", "S", "T", "R", "I", "D", ",", " ",
          "H", "O", "W", " ", "A", "R", "E", " ", "M", "Y", " ", "R", "E", "S",
          "E", "R", "V", "E", " ", "W", "A", "T", "E", "R", " ", "L", "E", "V",
          "E", "L", "S", "?">>,
     bot_reply_pending |-> None]

\* The fields a StateUpdate can carry.
StateUpdateFields == HudFields \ {"bot_reply_pending"}

\* int(x) of a float held in tenths: truncation toward zero.
Trunc(x) == IF x >= 0 THEN x \div 10 ELSE -((-x) \div 10)

\* ------------------------------------------------- StatefulController
GreetingWords ==
    {<<"h", "e", "l", "l", "o">>, <<"h", "i">>, <<"h", "e", "y">>,
     <<"g", "r", "e", "e", "t", "i", "n", "g", "s">>}

StatusWords ==
    {<<"s", "t", "a", "t", "u", "s">>, <<"h", "o", "w">>, <<"w", "h", "a", "t">>,
     <<"c", "o", "n", "d", "i", "t", "i", "o", "n">>, <<"s", "t", "a", "t", "e">>}

PowerWords ==
    {<<"p", "o", "w", "e", "r">>,
     <<"e", "l", "e", "c", "t", "r", "i", "c", "i", "t", "y">>,
     <<"w", "a", "t", "t">>,
     <<"c", "o", "n", "s", "u", "m", "p", "t", "i", "o", "n">>,
     <<"g", "e", "n", "e", "r", "a", "t", "i", "o", "n">>}

BatteryWords ==
    {<<"b", "a", "t", "t", "e", "r", "y">>, <<"c", "a", "p", "a", "c", "i", "t", "y">>,
     <<"c", "h", "a", "r", "g", "e">>, <<"e", "n", "e", "r", "g", "y">>,
     <<"s", "t", "o", "r", "a", "g", "e">>}

WaterWords ==
    {<<"w", "a", "t", "e", "r">>, <<"r", "e", "s", "e", "r", "v", "e">>,
     <<"l", "e", "v", "e", "l">>, <<"t", "a", "n", "k">>}

MaintenanceWords ==
    {<<"m", "a", "i", "n", "t", "e", "n", "a", "n", "c", "e">>,
     <<"s", "e", "r", "v", "i", "c", "e">>, <<"c", "h", "e", "c", "k">>,
     <<"i", "n", "s", "p", "e", "c", "t">>}

AnyWord(words, s) == \E w \in words : Contains(s, w)

\* The power keywords tested before the status keywords.
analyze_message_power_first(message) ==
    LET message_lower == Strip(Lower(message)) IN
    IF AnyWord(GreetingWords, message_lower) THEN [intent |-> "greeting", confidence |-> 90]
    ELSE IF AnyWord(PowerWords, message_lower) THEN [intent |-> "power", confidence |-> 85]
    ELSE IF AnyWord(StatusWords, message_lower) THEN [intent |-> "status", confidence |-> 80]
    ELSE IF AnyWord(BatteryWords, message_lower) THEN [intent |-> "battery", confidence |-> 90]
    ELSE IF AnyWord(WaterWords, message_lower) THEN [intent |-> "water", confidence |-> 70]
    ELSE IF AnyWord(MaintenanceWords, message_lower)
         THEN [intent |-> "maintenance", confidence |-> 80]
    ELSE [intent |-> "unknown", confidence |-> 30]

\* The water keywords tested before the battery keywords.
analyze_message_water_first(message) ==
    LET message_lower == Strip(Lower(message)) IN
    IF AnyWord(GreetingWords, message_lower) THEN [intent |-> "greeting", confidence |-> 90]
    ELSE IF AnyWord(StatusWords, message_lower) THEN [intent |-> "status", confidence |-> 80]
    ELSE IF AnyWord(PowerWords, message_lower) THEN [intent |-> "power", confidence |-> 85]
    ELSE IF AnyWord(WaterWords, message_lower) THEN [intent |-> "water", confidence |-> 70]
    ELSE IF AnyWord(BatteryWords, message_lower) THEN [intent |-> "battery", confidence |-> 90]
    ELSE IF AnyWord(MaintenanceWords, message_lower)
         THEN [intent |-> "maintenance", confidence |-> 80]
    ELSE [intent |-> "unknown", confidence |-> 30]

\* Confidences are held in hundredths (0.85 is 85).
analyze_message(message) ==
    LET message_lower == Strip(Lower(message)) IN
    IF AnyWord(GreetingWords, message_lower) THEN [intent |-> "greeting", confidence |-> 90]
    ELSE IF AnyWord(StatusWords, message_lower) THEN [intent |-> "status", confidence |-> 80]
    ELSE IF AnyWord(PowerWords, message_lower) THEN [intent |-> "power", confidence |-> 85]
    ELSE IF AnyWord(BatteryWords, message_lower) THEN [intent |-> "battery", confidence |-> 90]
    ELSE IF AnyWord(WaterWords, message_lower) THEN [intent |-> "water", confidence |-> 70]
    ELSE IF AnyWord(MaintenanceWords, message_lower)
         THEN [intent |-> "maintenance", confidence |-> 80]
    ELSE [intent |-> "unknown", confidence |-> 30]

\* `days_since >= 30` in place of `days_since > 30`.
generate_response_overdue_at_30(intent, k, st, today) ==
    CASE intent = "maintenance" ->
            LET days_since == today + InitialMaintenanceAge IN
            IF days_since >= MaintenanceInterval
            THEN [tmpl |-> <<"maintenance_overdue", 1>>,
                  args |-> <<days_since - MaintenanceInterval>>]
            ELSE [tmpl |-> <<"maintenance_due", 1>>,
                  args |-> <<days_since, MaintenanceInterval - days_since>>]
      [] intent = "water" -> [tmpl |-> <<"water", 1>>, args |-> <<>>]
      [] OTHER -> [tmpl |-> <<intent, k>>, args |-> <<>>]

\* A reply is the template chosen and the numbers formatted into it, in the
\* order the template names them.  k is random.choice's pick.
generate_response(intent, k, st, today) ==
    CASE intent = "greeting" -> [tmpl |-> <<"greeting", k>>, args |-> <<>>]
      [] intent = "status" -> [tmpl |-> <<"status", k>>, args |-> <<>>]
      [] intent = "power" ->
            [tmpl |-> <<"power", k>>,
             args |-> IF k = 3
                      THEN <<Trunc(st.battery_pct), Trunc(st.load_w), Trunc(st.sun_w)>>
                      ELSE <<Trunc(st.load_w), Trunc(st.sun_w)>>]
      [] intent = "battery" -> [tmpl |-> <<"battery", k>>, args |-> <<Trunc(st.battery_pct)>>]
      [] intent = "water" -> [tmpl |-> <<"water", 1>>, args |-> <<>>]
      [] intent = "maintenance" ->
            LET days_since == today + InitialMaintenanceAge IN
            IF days_since > MaintenanceInterval
            THEN [tmpl |-> <<"maintenance_overdue", 1>>,
                  args |-> <<days_since - MaintenanceInterval>>]
            ELSE [tmpl |-> <<"maintenance_due", 1>>,
                  args |-> <<days_since, MaintenanceInterval - days_since>>]
      [] OTHER -> [tmpl |-> <<"unknown", k>>, args |-> <<>>]

\* The timestamp is the controller's clock reading, which advances with
\* every entry.
\* pop() in place of pop(0): the newest exchange is the one dropped.
add_to_history_pops_last(hist, ts, user_message, bot_response) ==
    LET appended == Append(hist, [timestamp |-> ts, user |-> user_message,
                                  bot |-> bot_response]) IN
    IF Len(appended) > HistoryCap THEN SubSeq(appended, 1, HistoryCap) ELSE appended

add_to_history(hist, ts, user_message, bot_response) ==
    LET appended == Append(hist, [timestamp |-> ts, user |-> user_message,
                                  bot |-> bot_response]) IN
    IF Len(appended) > HistoryCap THEN Tail(appended) ELSE appended

\* The texts tried.
WaterText == <<" ", "w", "a", "t", "e", "r", "\n">>
BlankText == <<" ", "\t">>
InjectedText == <<"o", "k">>
InputTexts == {WaterText, BlankText, InjectedText, <<>>}

\* The messages given to the classifier.
HelloText ==
    <<"h", "e", "l", "l", "o">>

BatteryLevelText ==
    <<"w", "h", "a", "t", " ", "i", "s", " ", "m", "y", " ", "b", "a", "t",
      "t", "e", "r", "y", " ", "l", "e", "v", "e", "l">>

HowMuchBatteryText ==
    <<"h", "o", "w", " ", "m", "u", "c", "h", " ", "b", "a", "t", "t", "e",
      "r", "y">>

PowerStatusText ==
    <<" ", " ", "W", "h", "a", "t", " ", "i", "s", " ", "t", "h", "e", " ",
      "P", "O", "W", "E", "R", " ", "s", "t", "a", "t", "u", "s", "?", "\n">>

StatusGenerationText ==
    <<"s", "t", "a", "t", "u", "s", " ", "o", "f", " ", "g", "e", "n", "e",
      "r", "a", "t", "i", "o", "n">>

PowerOfThisText ==
    <<"s", "t", "a", "t", "e", " ", "t", "h", "e", " ", "p", "o", "w", "e",
      "r", " ", "o", "f", " ", "t", "h", "i", "s", " ", "h", "o", "u", "s",
      "e">>

HeyPowerText ==
    <<"h", "e", "y", ",", " ", "h", "o", "w", " ", "m", "u", "c", "h", " ",
      "p", "o", "w", "e", "r">>

WattText ==
    <<"w", "a", "t", "t">>

BatteryChargeText ==
    <<"B", "a", "t", "t", "e", "r", "y", " ", "c", "h", "a", "r", "g", "e">>

TankText ==
    <<"t", "a", "n", "k", " ", "l", "e", "v", "e", "l">>

ServiceText ==
    <<"s", "e", "r", "v", "i", "c", "e">>

CheckTankText ==
    <<"c", "h", "e", "c", "k", " ", "t", "a", "n", "k">>

EnergyWaterText ==
    <<"e", "n", "e", "r", "g", "y", " ", "f", "o", "r", " ", "w", "a", "t",
      "e", "r">>

UnknownText ==
    <<"z", "z", "z">>

ClassifyTexts ==
    {HelloText, BatteryLevelText, HowMuchBatteryText, PowerStatusText,
     StatusGenerationText, PowerOfThisText, HeyPowerText, WattText,
     BatteryChargeText, TankText, ServiceText, CheckTankText,
     EnergyWaterText, UnknownText,
     WaterText, BlankText, <<>>}

\* analyze_message of the texts tried and of what strip() makes of them,
\* computed once.
Analyses ==
    [x \in InputTexts \cup {Strip(y) : y \in InputTexts} \cup ClassifyTexts |->
        analyze_message(x)]

\* controller.process_message on the world w; k is random.choice's pick.
process_message(w, message, k) ==
    LET analysis == IF message \in DOMAIN Analyses THEN Analyses[message]
                    ELSE analyze_message(message)
        response == generate_response(analysis.intent, k, w.hud, now)
    IN [w EXCEPT !.hist = add_to_history(w.hist, w.clock + 1, message, response),
                 !.clock = w.clock + 1,
                 !.response = response]

\* ------------------------------------------------------- coroutines
Chans == 1..NumChans
Rests == 1..NumRest
Solo == 1..SoloRest
Ws(c) == <<"ws", c>>
Rest(r) == <<"rest", r>>
Tasks == {Ws(c) : c \in Chans} \cup {Rest(r) : r \in Rests}

Range(s) == {s[i] : i \in 1..Len(s)}

\* list.remove(x): the first occurrence goes, the rest shift down.
RECURSIVE Remove(_, _)
Remove(s, x) ==
    IF s = <<>> THEN <<>>
    ELSE IF Head(s) = x THEN Tail(s)
    ELSE <<Head(s)>> \o Remove(Tail(s), x)

NoIntent == [intent |-> "none", confidence |-> 0]
NoMsg == [type |-> "none", hasText |-> FALSE, text |-> <<>>]
NoReply == [tmpl |-> <<"none", 0>>, args |-> <<>>]
NoMessage == [type |-> "none", payload |-> <<>>]

\* The frame of one call of ConnectionManager.broadcast.  The for loop
\* iterates the list object that was self.active when the loop began: the
\* frame is `attached` while that object still is self.active, and holds
\* its own copy `snap` once another broadcast has rebound self.active.
\* idx is the list iterator's index.  cur and ok are the send awaited.
\* bid, startReg, tried and dirty record the call for the properties: its
\* number, the registry when it began, the channels it sent to, and whether
\* another task changed the registry while it ran.
NoFrame ==
    [msg |-> NoMessage, attached |-> FALSE, snap |-> <<>>, idx |-> 0,
     living |-> <<>>, cur |-> 0, ok |-> FALSE, after |-> "none",
     bid |-> 0, startReg |-> <<>>, tried |-> <<>>, dirty |-> FALSE]

NoUpdate == [f \in {} |-> 0]

\* A task: pc is the await it is suspended at (a_...), a point in straight
\* code (s_...), or new / idle / done / crashed.  upd is the StateUpdate of
\* the last PUT /api/state, ret the last reply returned to a REST caller,
\* msg the last frame receive_json gave and frames how many it has given.
\* handling, raw, hbids, stable, sleepBid, sleepClock and closedInSleep
\* record the handling of the last user_message for the properties: the
\* text as received, the numbers of its broadcasts, the channels that
\* stayed registered with no failed send, the next broadcast number and
\* the clock when the sleep began, and whether the client left during it.
NewTask(pc) ==
    [pc |-> pc, bc |-> NoFrame, upd |-> NoUpdate, user_text |-> <<>>,
     bot_response |-> NoReply, ret |-> NoReply, ret_intent |-> NoIntent,
     msg |-> NoMsg, frames |-> 0,
     handling |-> "none", raw |-> <<>>, hbids |-> <<>>, stable |-> {},
     sleepBid |-> 0, sleepClock |-> 0, closedInSleep |-> FALSE]

World ==
    [active |-> active, hud |-> hud, hist |-> conversation_history,
     clock |-> clock, task |-> task, recv |-> recv, nextBid |-> nextBid,
     response |-> NoReply]

\* time.sleep(1.5) in place of await asyncio.sleep(1.5)
SleepBlocks == {"a_sleep"}

\* The labels at which a task holds the event loop: none, every wait of
\* the program is awaited (asyncio.sleep, not time.sleep).
BlockingLabels == {}

LoopFree == \A u \in Tasks : task[u].pc \notin BlockingLabels

\* ws.send_json: a send fails only on a channel whose client has gone (and
\* may still succeed there, the close not yet seen), and always fails once
\* the channel's endpoint has returned and the server has closed it.
SendOutcome(w, ws, o) ==
    IF w.task[Ws(ws)].pc \in {"done", "crashed"} THEN FALSE
    ELSE IF ws \in closed THEN o
    ELSE TRUE

Deliver(w, ws, msg, bid) ==
    [w EXCEPT !.recv[ws] = Append(@, [type |-> msg.type, payload |-> msg.payload,
                                      bid |-> bid])]

\* {"type": "state", "data": STATE.dict()}
StateMessage(w) == [type |-> "state", payload |-> w.hud]

\* manager.broadcast in place of manager.send_state: every registered
\* channel is sent the state.
send_state_to_all(w, ws, o) ==
    LET okk == SendOutcome(w, ws, o)
        msg == [type |-> "state", payload |-> w.hud, bid |-> 0]
    IN [w EXCEPT !.recv = [c \in Chans |->
                              IF c \in Range(w.active) /\ (c # ws \/ okk)
                              THEN Append(w.recv[c], msg) ELSE w.recv[c]],
                 !.task[Ws(ws)].bc.ok = okk]

\* ConnectionManager.send_state up to its await.
send_state(w, ws, o) ==
    LET okk == SendOutcome(w, ws, o)
        w1 == IF okk THEN Deliver(w, ws, StateMessage(w), 0) ELSE w
    IN [w1 EXCEPT !.task[Ws(ws)].bc.ok = okk]

\* ConnectionManager.disconnect
disconnect(w, ws) ==
    IF ws \in Range(w.active) THEN [w EXCEPT !.active = Remove(w.active, ws)] ELSE w

\* ConnectionManager.broadcast: the call, up to the for loop.
StartBroadcast(w, t, msg, after) ==
    [w EXCEPT !.task[t].pc = "s_loop",
              !.task[t].bc =
                  [msg |-> msg, attached |-> TRUE, snap |-> <<>>, idx |-> 0,
                   living |-> <<>>, cur |-> 0, ok |-> FALSE, after |-> after,
                   bid |-> w.nextBid, startReg |-> w.active, tried |-> <<>>,
                   dirty |-> FALSE],
              !.task[t].hbids = IF w.task[t].handling = "running"
                                THEN Append(@, w.nextBid) ELSE @,
              !.nextBid = @ + 1]

BcList(w, t) == IF w.task[t].bc.attached THEN w.active ELSE w.task[t].bc.snap

\* One turn of the for loop, up to the await of ws.send_json.
LoopSend(w, t, o) ==
    LET b == w.task[t].bc
        ws == BcList(w, t)[b.idx + 1]
        okk == SendOutcome(w, ws, o)
        w1 == IF okk THEN Deliver(w, ws, b.msg, b.bid) ELSE w
    IN [w1 EXCEPT !.task[t].pc = "a_send",
                  !.task[t].bc.idx = @ + 1,
                  !.task[t].bc.cur = ws,
                  !.task[t].bc.ok = okk,
                  !.task[t].bc.tried = Append(@, ws),
                  !.task[t].stable = IF okk THEN @ ELSE @ \ {ws}]

\* The loop is exhausted: self.active = living.  Every other broadcast that
\* was iterating the old list object keeps iterating it.
LoopFinish(w, t) ==
    LET b == w.task[t].bc
        old == w.active
    IN [w EXCEPT
          !.active = b.living,
          !.task = [u \in Tasks |->
              IF u = t
              THEN [w.task[u] EXCEPT
                      !.pc = b.after,
                      !.bc = [NoFrame EXCEPT !.bid = b.bid, !.startReg = b.startReg,
                                             !.tried = b.tried, !.dirty = b.dirty,
                                             !.living = b.living]]
              ELSE IF w.task[u].pc = "a_send" /\ w.task[u].bc.attached
              THEN [w.task[u] EXCEPT !.bc.attached = FALSE, !.bc.snap = old]
              ELSE w.task[u]]]

\* The task t runs from a point in straight code to its next await.  o is
\* the outcome of the send it reaches, k the pick of random.choice.
RECURSIVE Run(_, _, _, _)
Run(w, t, o, k) ==
    LET pc == w.task[t].pc IN
    CASE pc = "s_loop" ->
            IF w.task[t].bc.idx < Len(BcList(w, t))
            THEN LoopSend(w, t, o)
            ELSE Run(LoopFinish(w, t), t, o, k)
      [] pc = "s_clear" ->
            Run(StartBroadcast(w, t, [type |-> "clear_center", payload |-> <<>>],
                               "s_process"), t, o, k)
      [] pc = "s_process" ->
            LET w1 == process_message(w, w.task[t].user_text, k) IN
            [w1 EXCEPT !.task[t].bot_response = w1.response,
                       !.task[t].sleepBid = w1.nextBid,
                       !.task[t].sleepClock = w1.clock,
                       !.task[t].pc = "a_sleep"]
      [] pc = "s_reply" ->
            Run(StartBroadcast(w, t, [type |-> "bot_reply",
                                      payload |-> w.task[t].bot_response],
                               "s_next"), t, o, k)
      [] pc = "s_next" ->
            [w EXCEPT !.task[t].pc = "a_recv", !.task[t].handling = "complete"]
      [] pc = "s_upd_ret" ->
            [w EXCEPT !.task[t].pc = "idle"]
      [] pc = "s_inject_clear" ->
            [w EXCEPT !.hud.bot_reply_pending = None, !.task[t].pc = "idle"]
      [] OTHER -> w

\* What a step of task t leaves behind, with the records kept for the
\* properties: a broadcast in flight in another task is dirty once the
\* registry changed under it, and a channel is stable for a handling while
\* it stays registered, the step that ends the handling included.
Settle(w, t) ==
    [u \in Tasks |->
        [w.task[u] EXCEPT
           !.bc.dirty = @ \/ (u # t /\ w.task[u].pc = "a_send" /\ w.active # active),
           !.stable = IF "running" \in {task[u].handling, w.task[u].handling}
                      THEN @ \cap Range(w.active) ELSE @]]

Commit(w, t) ==
    /\ active' = w.active
    /\ hud' = w.hud
    /\ conversation_history' = w.hist
    /\ clock' = w.clock
    /\ recv' = w.recv
    /\ nextBid' = w.nextBid
    /\ task' = Settle(w, t)

\* -------------------------------------------------------------- inputs
Frame(type, hasText, text) == [type |-> type, hasText |-> hasText, text |-> text]

\* The inbound frames tried: a user_message whose text needs trimming, one
\* of whitespace only, one with no text, a request_state and an unknown type.
Frames ==
    {Frame("user_message", TRUE, WaterText), Frame("user_message", TRUE, BlankText),
     Frame("user_message", FALSE, <<>>), Frame("request_state", FALSE, <<>>),
     Frame("ping", FALSE, <<>>)}

\* The values an update gives a field: the i-th of the two tried.
UpdValue(f, i) ==
    CASE f = "headline" -> "HQ"
      [] f = "eve" -> "OK"
      [] f = "battery_pct" -> IF i = 1 THEN 505 ELSE 1000
      [] f = "last_user_line" -> IF i = 1 THEN <<"h", "i">> ELSE <<>>
      [] OTHER -> 15

TwoValued == {"battery_pct", "last_user_line"}

\* Every partial update of at most MaxUpdFields fields.
AllUpdates ==
    UNION {{[f \in S |-> UpdValue(f, IF f \in A THEN 2 ELSE 1)] :
                A \in SUBSET (S \cap TwoValued)} :
           S \in {S \in SUBSET StateUpdateFields : Cardinality(S) <= MaxUpdFields}}

\* The updates tried beside the other operations.
RestUpdates ==
    {[f \in S |-> UpdValue(f, 1)] :
        S \in {{"headline", "last_user_line"}}}

\* Those whose reply random.choice picks among the patterns of the intent.
RandomTexts ==
    {x \in InputTexts \cup {Strip(y) : y \in InputTexts} :
        Analyses[x].intent \notin {"water", "maintenance"}}

\* The picks random.choice can make for a message.
Picks(text) == IF text \in RandomTexts THEN 1..NumPatterns ELSE {1}

\* The outcomes a send begun now can have.
Outcomes == IF closed = {} THEN {TRUE} ELSE BOOLEAN

\* ---------------------------------------------------------------- Init
Init ==
    /\ active = <<>>
    /\ hud = HudState
    /\ conversation_history = <<>>
    /\ clock = 0
    /\ now = 0
    /\ task = [t \in Tasks |-> IF t[1] = "ws" THEN NewTask("new") ELSE NewTask("idle")]
    /\ recv = [c \in Chans |-> <<>>]
    /\ closed = {}
    /\ inbound = 0
    /\ restOps = 0
    /\ nextBid = 1
    /\ userMsgs = 0

\* ------------------------------------------------- websocket_endpoint
\* The channel is not appended to the registry.
ConnectUnregistered(c) ==
    /\ task[Ws(c)].pc = "new"
    /\ \A d \in Chans : d < c => task[Ws(d)].pc # "new"
    /\ LoopFree
    /\ LET t == Ws(c)
           w1 == [send_state(World, c, TRUE) EXCEPT !.task[t].pc = "a_state0"]
       IN \E wf \in {w1} : Commit(wf, t)
    /\ UNCHANGED <<now, closed, inbound, restOps, userMsgs>>

\* A client opens /ws and ws.accept() has returned: the channel is appended
\* and send_state awaited.  Channels are numbered in the order they connect.
Connect(c) ==
    /\ task[Ws(c)].pc = "new"
    /\ \A d \in Chans : d < c => task[Ws(d)].pc # "new"
    /\ LoopFree
    /\ LET t == Ws(c)
           w1 == [send_state([World EXCEPT !.active = Append(@, c)], c, TRUE)
                     EXCEPT !.task[t].pc = "a_state0"]
       IN \E wf \in {w1} : Commit(wf, t)
    /\ UNCHANGED <<now, closed, inbound, restOps, userMsgs>>

\* The same, the client having gone once the handshake was done: the
\* channel is appended and the send of the state raises.
ConnectGone(c) ==
    /\ task[Ws(c)].pc = "new"
    /\ \A d \in Chans : d < c => task[Ws(d)].pc # "new"
    /\ Cardinality(closed) < MaxCloses
    /\ LoopFree
    /\ closed' = closed \cup {c}
    /\ LET t == Ws(c)
           w1 == [World EXCEPT !.active = Append(@, c),
                               !.task[t].bc.ok = FALSE,
                               !.task[t].pc = "a_state0"]
       IN \E wf \in {w1} : Commit(wf, t)
    /\ UNCHANGED <<now, inbound, restOps, userMsgs>>

\* The first send_state returns, or raises: manager.connect is called
\* outside the try, so the exception leaves the endpoint.
InitialStateSent(c) ==
    /\ task[Ws(c)].pc = "a_state0"
    /\ LoopFree
    /\ LET t == Ws(c)
           w1 == [World EXCEPT !.task[t].pc = IF task[t].bc.ok THEN "a_recv" ELSE "crashed"]
       IN \E wf \in {w1} : Commit(wf, t)
    /\ UNCHANGED <<now, closed, inbound, restOps, userMsgs>>

\* ws.receive_json() returns a frame: the loop body up to its next await.
ReceiveFrame(c, frame, o, k) ==
    /\ task[Ws(c)].pc = "a_recv"
    /\ c \notin closed
    /\ LoopFree
    /\ LET t == Ws(c)
           w0 == [World EXCEPT !.task[t].msg = frame, !.task[t].frames = @ + 1]
           user_text == Strip(IF frame.hasText THEN frame.text ELSE <<>>)
           w1 == CASE frame.type = "user_message" /\ user_text # <<>> ->
                        LET wa == [w0 EXCEPT !.hud.last_user_line = user_text,
                                             !.task[t].user_text = user_text,
                                             !.task[t].handling = "running",
                                             !.task[t].raw = frame.text,
                                             !.task[t].hbids = <<>>,
                                             !.task[t].stable = Range(w0.active),
                                             !.task[t].closedInSleep = FALSE]
                        IN Run(StartBroadcast(wa, t,
                                   [type |-> "user_line",
                                    payload |-> wa.hud.last_user_line], "s_clear"),
                               t, o, k)
                   [] frame.type = "user_message" /\ user_text = <<>> ->
                        [w0 EXCEPT !.task[t].user_text = user_text,
                                   !.task[t].handling = "none"]
                   [] frame.type = "request_state" ->
                        [send_state(w0, c, o) EXCEPT !.task[t].pc = "a_reqstate"]
                   [] OTHER -> w0
       IN /\ \E wf \in {w1} : Commit(wf, t)
          /\ userMsgs' = IF frame.type = "user_message" /\ user_text # <<>>
                         THEN userMsgs + 1 ELSE userMsgs
    /\ inbound' = inbound + 1
    /\ UNCHANGED <<now, closed, restOps>>

\* ws.receive_json() raises WebSocketDisconnect: manager.disconnect(ws).
ReceiveDisconnect(c) ==
    /\ task[Ws(c)].pc = "a_recv"
    /\ c \in closed
    /\ LoopFree
    /\ LET t == Ws(c)
           w1 == [disconnect(World, c) EXCEPT !.task[t].pc = "done"]
       IN \E wf \in {w1} : Commit(wf, t)
    /\ UNCHANGED <<now, closed, inbound, restOps, userMsgs>>

\* ws.receive_json() raises on a frame that is no JSON object (or whose
\* text is no string): except Exception, manager.disconnect(ws).
ReceiveFault(c) ==
    /\ task[Ws(c)].pc = "a_recv"
    /\ c \notin closed
    /\ LoopFree
    /\ LET t == Ws(c)
           w1 == [disconnect(World, c) EXCEPT !.task[t].pc = "done",
                                              !.task[t].frames = @ + 1]
       IN \E wf \in {w1} : Commit(wf, t)
    /\ inbound' = inbound + 1
    /\ UNCHANGED <<now, closed, restOps, userMsgs>>

\* The send_state of a request_state returns, or raises into the handler.
RequestStateSent(c) ==
    /\ task[Ws(c)].pc = "a_reqstate"
    /\ LoopFree
    /\ LET t == Ws(c)
           w1 == IF task[t].bc.ok
                 THEN [World EXCEPT !.task[t].pc = "a_recv"]
                 ELSE [disconnect(World, c) EXCEPT !.task[t].pc = "done"]
       IN \E wf \in {w1} : Commit(wf, t)
    /\ UNCHANGED <<now, closed, inbound, restOps, userMsgs>>

\* asyncio.sleep(1.5) is over: the bot_reply is broadcast.
Wake(c, o) ==
    /\ task[Ws(c)].pc = "a_sleep"
    /\ LET t == Ws(c)
       IN \E wf \in {Run([World EXCEPT !.task[t].pc = "s_reply"], t, o, 1)} : Commit(wf, t)
    /\ UNCHANGED <<now, closed, inbound, restOps, userMsgs>>

\* ------------------------------------------------------------ broadcast
\* A bare `except: living.append(ws)`: the failed channel is kept.
LivingKeepsFailed(b) == Append(b.living, b.cur)

\* try: await ws.send_json(message); living.append(ws) / except Exception: pass
Living(b) == IF b.ok THEN Append(b.living, b.cur) ELSE b.living

\* The awaited ws.send_json returns (living.append) or raises (pass); the
\* loop goes on, and after it the caller, up to the next await.
SendDone(t, o, k) ==
    /\ task[t].pc = "a_send"
    /\ LoopFree
    /\ LET b == task[t].bc
           w0 == [World EXCEPT !.task[t].pc = "s_loop",
                               !.task[t].bc.living = Living(b)]
       IN \E wf \in {Run(w0, t, o, k)} : Commit(wf, t)
    /\ UNCHANGED <<now, closed, inbound, restOps, userMsgs>>

\* ------------------------------------------------------- REST handlers
\* STATE = HudState(**upd): the fields the update omits fall back to
\* their defaults.
ApplyOverDefaults(st, upd) ==
    [f \in DOMAIN st |-> IF f \in DOMAIN upd THEN upd[f] ELSE HudState[f]]

\* setattr(STATE, k, v) for every field the update carries.
ApplyPartial(st, upd) ==
    [f \in DOMAIN st |-> IF f \in DOMAIN upd THEN upd[f] ELSE st[f]]

\* PUT /api/state
update_state(r, upd, o) ==
    /\ task[Rest(r)].pc = "idle"
    /\ LoopFree
    /\ LET t == Rest(r)
           w0 == [World EXCEPT !.task[t].upd = upd,
                               !.hud = ApplyPartial(hud, upd)]
       IN \E wf \in {Run(StartBroadcast(w0, t, StateMessage(w0), "s_upd_ret"), t, o, 1)} : Commit(wf, t)
    /\ restOps' = restOps + 1
    /\ UNCHANGED <<now, closed, inbound, userMsgs>>

\* POST /api/bot_reply
bot_reply(r, text, o) ==
    /\ task[Rest(r)].pc = "idle"
    /\ LoopFree
    /\ LET t == Rest(r)
           w0 == [World EXCEPT !.hud.bot_reply_pending = Some(text)]
       IN \E wf \in {Run(StartBroadcast(w0, t, [type |-> "bot_reply", payload |-> text],
                                    "s_inject_clear"), t, o, 1)} : Commit(wf, t)
    /\ restOps' = restOps + 1
    /\ UNCHANGED <<now, closed, inbound, userMsgs>>

\* The reply is also broadcast as a bot_reply event.
process_message_directly_broadcasts(r, text, k) ==
    /\ task[Rest(r)].pc = "idle"
    /\ LoopFree
    /\ LET t == Rest(r)
           w1 == process_message(World, text, k)
           w2 == [w1 EXCEPT !.task[t].user_text = text,
                            !.task[t].ret = w1.response,
                            !.task[t].ret_intent = analyze_message(text)]
       IN \E wf \in {Run(StartBroadcast(w2, t, [type |-> "bot_reply",
                                                payload |-> w1.response],
                                        "s_upd_ret"), t, TRUE, 1)} : Commit(wf, t)
    /\ restOps' = restOps + 1
    /\ UNCHANGED <<now, closed, inbound, userMsgs>>

\* POST /api/controller/process
process_message_directly(r, text, k) ==
    /\ task[Rest(r)].pc = "idle"
    /\ LoopFree
    /\ LET t == Rest(r)
           w1 == process_message(World, text, k)
           intent == IF text \in DOMAIN Analyses THEN Analyses[text]
                     ELSE analyze_message(text)
       IN \E wf \in {[w1 EXCEPT !.task[t].user_text = text,
                                 !.task[t].ret = w1.response,
                                 !.task[t].ret_intent = intent]} : Commit(wf, t)
    /\ restOps' = restOps + 1
    /\ UNCHANGED <<now, closed, inbound, userMsgs>>

\* ---------------------------------------------------------- environment
\* The client of a channel goes away.
ClientClose(c) ==
    /\ task[Ws(c)].pc \notin {"new", "done", "crashed"}
    /\ c \notin closed
    /\ Cardinality(closed) < MaxCloses
    /\ closed' = closed \cup {c}
    /\ task' = [task EXCEPT ![Ws(c)].closedInSleep = @ \/ task[Ws(c)].pc = "a_sleep"]
    /\ UNCHANGED <<active, hud, conversation_history, clock, now, recv, inbound,
                   restOps, nextBid, userMsgs>>

Next ==
    \/ \E c \in Chans : c <= MaxConnected /\ Connect(c)
    \/ \E c \in Chans : c <= MaxConnected /\ ConnectGone(c)
    \/ \E c \in Chans : InitialStateSent(c)
    \/ \E c \in Chans, f \in Frames, o \in Outcomes :
          \E k \in Picks(f.text) :
              /\ inbound < MaxInbound
              /\ (f.type = "user_message" /\ Strip(f.text) # <<>>) => userMsgs < MaxUserMsgs
              /\ ReceiveFrame(c, f, o, k)
    \/ \E c \in Chans : ReceiveDisconnect(c)
    \/ \E c \in Chans : inbound < MaxInbound /\ ReceiveFault(c)
    \/ \E c \in Chans : RequestStateSent(c)
    \/ \E c \in Chans, o \in Outcomes : Wake(c, o)
    \/ \E t \in Tasks, o \in Outcomes :
          \E k \in Picks(task[t].user_text) : SendDone(t, o, k)
    \/ \E r \in Solo, u \in RestUpdates, o \in Outcomes :
          restOps < MaxRestOps /\ update_state(r, u, o)
    \/ \E r \in Solo, o \in Outcomes :
          restOps < MaxRestOps /\ bot_reply(r, InjectedText, o)
    \/ \E r \in Solo, k \in Picks(WaterText) :
          restOps < MaxRestOps /\ process_message_directly(r, WaterText, k)
    \/ \E c \in Chans : ClientClose(c)

Spec == Init /\ [][Next]_vars

RequestFrame == Frame("request_state", FALSE, <<>>)
UserFrame == Frame("user_message", TRUE, WaterText)

\* One user_message among every channel, its sender's client leaving
\* during the delay, and the other channels faulting or leaving.
NextCancel ==
    \/ \E c \in Chans : Connect(c)
    \/ \E c \in Chans : InitialStateSent(c)
    \/ \E c \in Chans, o \in Outcomes :
          userMsgs < MaxUserMsgs /\ ReceiveFrame(c, UserFrame, o, 1)
    \/ \E c \in Chans : ReceiveDisconnect(c)
    \/ \E c \in Chans : inbound < MaxFrames /\ ReceiveFault(c)
    \/ \E c \in Chans, o \in Outcomes : Wake(c, o)
    \/ \E t \in Tasks, o \in Outcomes : SendDone(t, o, 1)
    \/ \E c \in Chans : task[Ws(c)].pc = "a_sleep" /\ ClientClose(c)

SpecCancel == Init /\ [][NextCancel]_vars

\* One user_message, and during its delay the frames of the other
\* connections and the REST operations; no client leaves.
NextDelay ==
    \/ \E c \in Chans : c <= MaxConnected /\ Connect(c)
    \/ \E c \in Chans : InitialStateSent(c)
    \/ \E c \in Chans :
          userMsgs < MaxUserMsgs /\ ReceiveFrame(c, UserFrame, TRUE, 1)
    \/ \E c \in Chans :
          inbound < MaxFrames /\ ReceiveFrame(c, RequestFrame, TRUE, 1)
    \/ \E c \in Chans : RequestStateSent(c)
    \/ \E c \in Chans : Wake(c, TRUE)
    \/ \E t \in Tasks : SendDone(t, TRUE, 1)
    \/ \E r \in Solo, u \in RestUpdates :
          restOps < MaxRestOps /\ update_state(r, u, TRUE)
    \/ \E r \in Solo :
          restOps < MaxRestOps /\ bot_reply(r, InjectedText, TRUE)
    \/ \E r \in Solo :
          restOps < MaxRestOps /\ process_message_directly(r, WaterText, 1)

SpecDelay == Init /\ [][NextDelay]_vars

\* PUT /api/state alone, with every partial update, from every HudState
\* earlier updates lead to.
NextState ==
    \E r \in Solo, u \in AllUpdates : restOps < MaxUpdates /\ update_state(r, u, TRUE)

SpecState == Init /\ [][NextState]_vars

\* Exchanges appended by one connection's user_messages and by
\* POST /api/controller/process, past the cap of the history.
NextLog ==
    \/ Connect(1)
    \/ InitialStateSent(1)
    \/ /\ clock < MaxAppends
       /\ userMsgs < MaxLogMsgs
       /\ ReceiveFrame(1, UserFrame, TRUE, 1)
    \/ SendDone(Ws(1), TRUE, 1)
    \/ Wake(1, TRUE)
    \/ \E r \in Solo : clock < MaxAppends /\ process_message_directly(r, WaterText, 1)

SpecLog == Init /\ [][NextLog]_vars

\* The frames of the connections alone: no REST request, no client leaves.
NextFrames ==
    \/ \E c \in Chans : c <= MaxConnected /\ Connect(c)
    \/ \E c \in Chans : InitialStateSent(c)
    \/ \E c \in Chans, f \in Frames :
          /\ inbound < MaxFrames
          /\ (f.type = "user_message" /\ Strip(f.text) # <<>>) => userMsgs < MaxUserMsgs
          /\ ReceiveFrame(c, f, TRUE, 1)
    \/ \E c \in Chans : RequestStateSent(c)
    \/ \E c \in Chans : Wake(c, TRUE)
    \/ \E t \in Tasks : SendDone(t, TRUE, 1)

SpecFrames == Init /\ [][NextFrames]_vars

\* POST /api/bot_reply while connections come and fault.
NextInject ==
    \/ \E c \in Chans : c <= MaxConnected /\ Connect(c)
    \/ \E c \in Chans : InitialStateSent(c)
    \/ \E c \in Chans : inbound < MaxInbound /\ ReceiveFault(c)
    \/ \E t \in Tasks : SendDone(t, TRUE, 1)
    \/ \E r \in Solo, text \in {InjectedText, WaterText} :
          restOps < MaxInjections /\ bot_reply(r, text, TRUE)

SpecInject == Init /\ [][NextInject]_vars

\* A day goes by.
Tick ==
    /\ now < MaxDays
    /\ now' = now + 1
    /\ UNCHANGED <<active, hud, conversation_history, clock, task, recv, closed,
                   inbound, restOps, nextBid, userMsgs>>

\* Maintenance queries as the days go by.
NextMaint ==
    \/ Tick
    \/ \E r \in Solo :
          restOps < MaxQueries /\ process_message_directly(r, ServiceText, 1)

SpecMaint == Init /\ [][NextMaint]_vars

\* The updates tried against each other: they set the same field.
FanUpdates == {[battery_pct |-> 505], [battery_pct |-> 1000], [eve |-> "OK"]}

\* PUT /api/state requests, which may overlap, while channels connect.  A
\* second handler runs only beside a first.
NextFanout ==
    \/ \E c \in Chans : c <= MaxConnected /\ Connect(c)
    \/ \E c \in Chans : InitialStateSent(c)
    \/ \E t \in Tasks : SendDone(t, TRUE, 1)
    \/ \E r \in Rests, u \in FanUpdates :
          /\ restOps < MaxUpdates
          /\ \A q \in Rests : q < r => task[Rest(q)].pc # "idle"
          /\ update_state(r, u, TRUE)

SpecFanout == Init /\ [][NextFanout]_vars

\* POST /api/controller/process alone, with the messages given to the
\* classifier.
NextClassify ==
    \E r \in Solo, text \in ClassifyTexts, k \in 1..NumPatterns :
        restOps < MaxClassified /\ process_message_directly(r, text, k)

SpecClassify == Init /\ [][NextClassify]_vars

\* =========================================================== properties
Registered(c) == c \in Range(active)

\* The channel's endpoint is past manager.connect's append and has not ended.
Running(c) == task[Ws(c)].pc \in {"a_state0", "a_recv", "a_send", "a_sleep", "a_reqstate"}

\* No call of broadcast is in progress.
Quiescent == \A t \in Tasks : task[t].pc # "a_send"

\* C1: on every channel the events of broadcasts arrive in the order the
\* calls of broadcast were started (by their numbers, given at the call).
C1_PerChannelOrder ==
    \A c \in Chans : \A i, j \in 1..Len(recv[c]) :
        (i < j /\ recv[c][i].bid > 0 /\ recv[c][j].bid > 0)
            => recv[c][i].bid < recv[c][j].bid

\* C2: a channel that is connected, whose client has not gone away (so no
\* send to it has failed) and whose dispatcher has handled no disconnect or
\* fault is registered whenever no broadcast is in progress.
C2_HealthyStaysRegistered ==
    \A c \in Chans : (Running(c) /\ c \notin closed /\ Quiescent) => Registered(c)

\* C3: once a channel's dispatcher has handled its disconnect (or fault) the
\* channel is not in the registry, in that state or in any later one.
C3_DisconnectedStaysOut ==
    \A c \in Chans : task[Ws(c)].pc = "done" => ~Registered(c)

\* The step ends the call of broadcast task t is in.
BroadcastEnds(t) ==
    /\ task[t].pc = "a_send"
    /\ task'[t].pc # "a_send" \/ task'[t].bc.bid # task[t].bc.bid

\* C4: a broadcast during which no other task changed the registry was
\* sent to every channel of the registry it began with, a failure stopping
\* nothing after it; it leaves registered exactly the channels whose send
\* succeeded, in their order; no channel holds its event twice; and the
\* caller goes on.
C4_BroadcastPrunesOnlyFailures ==
    [][\A t \in Tasks :
         (BroadcastEnds(t) /\ ~task[t].bc.dirty) =>
            LET b == task[t].bc
                Times(c) == Cardinality({i \in 1..Len(recv'[c]) :
                                            /\ recv'[c][i].bid = b.bid
                                            /\ recv'[c][i].type = b.msg.type})
                Succeeded(c) == Times(c) > 0
            IN /\ b.tried = b.startReg
               /\ active' = SelectSeq(b.startReg, Succeeded)
               /\ \A c \in Chans : Times(c) <= 1
               /\ \A c \in Chans : Succeeded(c) => c \in Range(b.startReg)
               /\ task'[t].pc \notin {"done", "crashed"}]_vars

\* A REST broadcast over two channels has ended undisturbed: the send to the
\* first failed, the second was still sent the event and alone is registered.
C4_Witness ==
    \E r \in Rests :
        LET x == task[Rest(r)] IN
        /\ x.pc = "idle"
        /\ x.bc.bid > 0
        /\ ~x.bc.dirty
        /\ Len(x.bc.startReg) = 2
        /\ x.bc.tried = x.bc.startReg
        /\ x.bc.living = <<x.bc.startReg[2]>>
        /\ active = x.bc.living
        /\ \E i \in 1..Len(recv[x.bc.startReg[2]]) : recv[x.bc.startReg[2]][i].bid = x.bc.bid

\* txt is raw without its leading and trailing whitespace.
Trimmed(raw, txt) ==
    /\ txt # <<>>
    /\ txt[1] \notin Whitespace
    /\ txt[Len(txt)] \notin Whitespace
    /\ \E i \in 0..(Len(raw) - Len(txt)) :
          /\ SubSeq(raw, i + 1, i + Len(txt)) = txt
          /\ \A j \in 1..Len(raw) : (j <= i \/ j > i + Len(txt)) => raw[j] \in Whitespace

\* The events of the handling of c's last user_message that channel d holds.
HandlingEvents(c, d) ==
    LET Mine(e) == e.bid \in Range(task[Ws(c)].hbids)
    IN SelectSeq(recv[d], Mine)

\* What the channels stable for a handling hold of it (the state part of C5).
C5_Delivered ==
    \A c \in Chans :
        LET x == task[Ws(c)]
            finished == Len(x.hbids) - (IF x.pc = "a_send" THEN 1 ELSE 0)
        IN x.handling # "none" =>
            /\ Trimmed(x.raw, x.user_text)
            /\ x.handling = "complete" => (Len(x.hbids) = 3 /\ x.pc # "a_send")
            /\ \A d \in x.stable :
                  LET got == HandlingEvents(c, d) IN
                  /\ Len(got) >= finished
                  /\ Len(got) <= Len(x.hbids)
                  /\ \A i \in 1..Len(got) :
                        /\ got[i].bid = x.hbids[i]
                        /\ got[i].type = <<"user_line", "clear_center", "bot_reply">>[i]
                        /\ i = 1 => got[i].payload = x.user_text
                        /\ i = 3 => got[i].payload = x.bot_response

\* The step takes a user_message with text on channel c.
TakesUserMessage(c) ==
    /\ task[Ws(c)].pc = "a_recv"
    /\ task'[Ws(c)].pc \in {"a_send", "a_sleep"}

\* C5: for the handling of a user_message with text, a channel that stayed
\* registered and that no send of the handling failed on holds the events of
\* the handling's finished broadcasts, in the order user_line (the trimmed
\* text, which is what STATE.last_user_line was set to before the event was
\* built), clear_center, bot_reply (the reply generated), and all three once
\* the handling is over.
C5_UserLineClearReply ==
    /\ []C5_Delivered
    /\ [][\A c \in Chans :
            TakesUserMessage(c) =>
                /\ hud'.last_user_line = task'[Ws(c)].user_text
                /\ Trimmed(task'[Ws(c)].raw, task'[Ws(c)].user_text)
                /\ \A d \in Chans :
                      Len(recv'[d]) > Len(recv[d]) =>
                          /\ recv'[d][Len(recv'[d])].type = "user_line"
                          /\ recv'[d][Len(recv'[d])].payload = hud'.last_user_line]_vars

\* A handling is over and two channels, the sender and another, stayed
\* registered through it.
C5_Witness ==
    \E c \in Chans, d \in Chans :
        /\ c # d
        /\ task[Ws(c)].handling = "complete"
        /\ {c, d} \subseteq task[Ws(c)].stable
        /\ Len(HandlingEvents(c, d)) = 3
        /\ task[Ws(c)].raw # task[Ws(c)].user_text

\* C6: while a dispatcher is suspended in the delay before its bot_reply,
\* every other connection waiting for a frame can take one, every idle REST
\* handler can take a request and every broadcast in progress can go on.
C6_DelayHoldsNoLock ==
    \A s \in Chans :
        task[Ws(s)].pc = "a_sleep" =>
            /\ \A c \in Chans \ {s} :
                  (task[Ws(c)].pc = "a_recv" /\ c \notin closed) =>
                      /\ ENABLED ReceiveFrame(c, RequestFrame, TRUE, 1)
                      /\ ENABLED ReceiveFrame(c, UserFrame, TRUE, 1)
            /\ \A c \in Chans \ {s} :
                  task[Ws(c)].pc = "a_reqstate" => ENABLED RequestStateSent(c)
            /\ \A r \in Rests :
                  task[Rest(r)].pc = "idle" =>
                      /\ ENABLED update_state(r, NoUpdate, TRUE)
                      /\ ENABLED bot_reply(r, InjectedText, TRUE)
                      /\ ENABLED process_message_directly(r, WaterText, 1)
            /\ \A t \in Tasks \ {Ws(s)} :
                  task[t].pc = "a_send" => ENABLED SendDone(t, TRUE, 1)

\* A dispatcher is still in its delay, and since the delay began a REST
\* broadcast was started and has ended and another connection, which was
\* sent that broadcast's event, has then asked for the state and got it.
C6_Witness ==
    \E s \in Chans, c \in Chans, r \in Rests :
        /\ s # c
        /\ task[Ws(s)].pc = "a_sleep"
        /\ task[Rest(r)].pc = "idle"
        /\ task[Rest(r)].bc.bid >= task[Ws(s)].sleepBid
        /\ task[Ws(c)].pc = "a_recv"
        /\ \E i, j \in 1..Len(recv[c]) :
              /\ i < j
              /\ recv[c][i].bid = task[Rest(r)].bc.bid
              /\ recv[c][j].bid = 0
              /\ recv[c][j].type = "state"

\* C7: when the sender's client went away during the delay, the bot_reply
\* broadcast made after it was sent to every channel that was registered
\* when it was made and is still connected.
C7_ReplyTargetsRegistry ==
    \A s \in Chans :
        LET x == task[Ws(s)] IN
        (x.handling = "complete" /\ x.closedInSleep)
            => \A d \in Range(x.bc.startReg) :
                   (Running(d) /\ d \notin closed) => d \in Range(x.bc.tried)

\* C8: taking a request_state sends one state event, the current HudState,
\* to the requester and nothing to any other channel, and changes neither
\* the HUD state, the history nor the registry; the return of that send
\* changes none of them and sends nothing.
C8_RequestStateOnlyToRequester ==
    [][\A c \in Chans :
         /\ (task[Ws(c)].pc = "a_recv" /\ task'[Ws(c)].pc = "a_reqstate") =>
               /\ hud' = hud
               /\ conversation_history' = conversation_history
               /\ active' = active
               /\ \A d \in Chans \ {c} : recv'[d] = recv[d]
               /\ recv'[c] = IF task'[Ws(c)].bc.ok
                             THEN Append(recv[c], [type |-> "state", payload |-> hud,
                                                   bid |-> 0])
                             ELSE recv[c]
         /\ (task[Ws(c)].pc = "a_reqstate" /\ task'[Ws(c)].pc = "a_recv") =>
               /\ hud' = hud
               /\ conversation_history' = conversation_history
               /\ active' = active
               /\ recv' = recv]_vars

\* A request_state was answered while another channel was registered and
\* after the HUD state had been updated: the requester's last event is the
\* updated state.
C8_Witness ==
    \E c \in Chans, d \in Chans :
        /\ c # d
        /\ task[Ws(c)].pc = "a_reqstate"
        /\ task[Ws(c)].bc.ok
        /\ {c, d} \subseteq Range(active)
        /\ hud # HudState
        /\ Len(recv[c]) >= 2
        /\ recv[c][Len(recv[c])] = [type |-> "state", payload |-> hud, bid |-> 0]

\* The step is a PUT /api/state handled by REST task r.
Updates(r) == nextBid' # nextBid /\ task'[Rest(r)].bc.bid = nextBid

\* C9: a partial update leaves every field it omits at its prior value and
\* gives every field it carries the value supplied.
C9_PartialUpdate ==
    [][\A r \in Rests :
         Updates(r) =>
            LET upd == task'[Rest(r)].upd IN
            \A f \in HudFields :
                hud'[f] = IF f \in DOMAIN upd THEN upd[f] ELSE hud[f]]_vars

\* After an update of eve and headline, an update of battery_pct alone has
\* left them as they were.
C9_Witness ==
    \E r \in Rests :
        /\ DOMAIN task[Rest(r)].upd = {"battery_pct"}
        /\ hud.battery_pct = 1000
        /\ hud.eve = "OK"
        /\ hud.headline = "HQ"
        /\ hud.load_w = HudState.load_w

\* C10: the history holds the last HistoryCap exchanges appended, or all of
\* them while they are fewer, oldest first.
C10_HistoryBounded ==
    LET n == Len(conversation_history) IN
    /\ n <= HistoryCap
    /\ n = IF clock < HistoryCap THEN clock ELSE HistoryCap
    /\ \A i \in 1..n : conversation_history[i].timestamp = clock - n + i

\* 21 exchanges were appended, by user_messages and by direct processing:
\* the first is gone and the 21st is last.
C10_Witness ==
    /\ clock = HistoryCap + 1
    /\ Len(conversation_history) = HistoryCap
    /\ conversation_history[1].timestamp = 2
    /\ conversation_history[HistoryCap].timestamp = HistoryCap + 1
    /\ \E i, j \in 1..HistoryCap :
          /\ conversation_history[i].user = WaterText
          /\ conversation_history[j].user = Strip(WaterText)

\* The REST task r has returned from POST /api/controller/process.
Classified(r) == task[Rest(r)].ret_intent # NoIntent

HasWord(words, message) == AnyWord(words, Lower(message))

\* C11 (as amended): a message that holds a status keyword and a power
\* keyword, and no greeting keyword, is classified status with confidence
\* 0.8.
C11_StatusBeforePower ==
    \A r \in Rests :
        LET m == task[Rest(r)].user_text IN
        (/\ Classified(r)
         /\ HasWord(StatusWords, m)
         /\ HasWord(PowerWords, m)
         /\ ~HasWord(GreetingWords, m))
            => task[Rest(r)].ret_intent = [intent |-> "status", confidence |-> 80]

\* C11 as stated: every message that holds a status keyword and a power
\* keyword is classified status with confidence 0.8.
C11_AsStated ==
    \A r \in Rests :
        LET m == task[Rest(r)].user_text IN
        (Classified(r) /\ HasWord(StatusWords, m) /\ HasWord(PowerWords, m))
            => task[Rest(r)].ret_intent = [intent |-> "status", confidence |-> 80]

\* "  What is the POWER status?\n" was classified status.
C11_Witness ==
    \E r \in Rests :
        /\ Classified(r)
        /\ task[Rest(r)].user_text = PowerStatusText
        /\ HasWord(StatusWords, PowerStatusText)
        /\ HasWord(PowerWords, PowerStatusText)
        /\ ~HasWord(GreetingWords, PowerStatusText)
        /\ task[Rest(r)].ret_intent.intent = "status"

\* The categories in the order they are tried, with their confidences.
IntentOrder ==
    <<[intent |-> "greeting", words |-> GreetingWords, confidence |-> 90],
      [intent |-> "status", words |-> StatusWords, confidence |-> 80],
      [intent |-> "power", words |-> PowerWords, confidence |-> 85],
      [intent |-> "battery", words |-> BatteryWords, confidence |-> 90],
      [intent |-> "water", words |-> WaterWords, confidence |-> 70],
      [intent |-> "maintenance", words |-> MaintenanceWords, confidence |-> 80]>>

FirstMatch(message) ==
    LET ml == Strip(Lower(message))
        hits == {i \in 1..Len(IntentOrder) : AnyWord(IntentOrder[i].words, ml)}
    IN IF hits = {} THEN [intent |-> "unknown", confidence |-> 30]
       ELSE LET i == CHOOSE i \in hits : \A j \in hits : i <= j
            IN [intent |-> IntentOrder[i].intent, confidence |-> IntentOrder[i].confidence]

\* C12: the classification of a message is the first category, in the order
\* greeting, status, power, battery, water, maintenance, one of whose
\* keywords the lower-cased trimmed message holds, with that category's
\* confidence, and unknown with 0.3 when there is none; "hello" is greeting
\* 0.9 and "what is my battery level" is status 0.8.
C12_FirstMatchInOrder ==
    \A r \in Rests :
        LET x == task[Rest(r)] IN
        Classified(r) =>
            /\ x.ret_intent = FirstMatch(x.user_text)
            /\ x.user_text = HelloText
                  => x.ret_intent = [intent |-> "greeting", confidence |-> 90]
            /\ x.user_text = BatteryLevelText
                  => x.ret_intent = [intent |-> "status", confidence |-> 80]
            /\ x.user_text = UnknownText
                  => x.ret_intent = [intent |-> "unknown", confidence |-> 30]

\* "hello" and then "what is my battery level" were classified.
C12_Witness ==
    \E r \in Rests :
        /\ Classified(r)
        /\ task[Rest(r)].user_text = BatteryLevelText
        /\ task[Rest(r)].ret_intent.intent = "status"
        /\ Len(conversation_history) = 2
        /\ conversation_history[1].user = HelloText
        /\ conversation_history[1].bot.tmpl[1] = "greeting"

\* The step is a POST /api/controller/process.
DirectStep == restOps' # restOps /\ clock' = clock + 1

\* C13: direct processing returns a reply and the intent with its
\* confidence in one uninterrupted step (no delay: no task is left waiting
\* by it), sends no event to any channel and leaves the registry as it was.
C13_DirectTouchesNoChannel ==
    [][DirectStep =>
         /\ active' = active
         /\ recv' = recv
         /\ \A t \in Tasks : task'[t].pc = task[t].pc
         /\ \E r \in Rests :
               /\ task'[Rest(r)].pc = "idle"
               /\ task'[Rest(r)].ret # NoReply
               /\ task'[Rest(r)].ret_intent # NoIntent]_vars

\* A message was processed directly while two channels were registered and
\* one of them was in the delay of its own user_message.
C13_Witness ==
    \E r \in Rests, c \in Chans :
        /\ Classified(r)
        /\ task[Rest(r)].ret.tmpl[1] = "water"
        /\ Len(active) = 2
        /\ task[Ws(c)].pc = "a_sleep"
        /\ task[Ws(c)].sleepClock < clock

\* C14: direct processing leaves the HUD state and the history as they
\* were (here: as they are at start, direct processing being all that runs).
C14_DirectLeavesLogAlone ==
    /\ hud = HudState
    /\ conversation_history = <<>>

\* The step is channel c's dispatcher taking a frame.
Took(c) == task'[Ws(c)].frames = task[Ws(c)].frames + 1

\* A frame that asks for nothing: a user_message with no text or with
\* nothing but whitespace, or a type the dispatcher does not know.
IsNoOp(frame) ==
    \/ /\ frame.type = "user_message"
       /\ ~frame.hasText \/ \A i \in 1..Len(frame.text) : frame.text[i] \in Whitespace
    \/ frame.type \notin {"user_message", "request_state", "none"}

\* C15: taking a user_message with empty, missing or whitespace-only text,
\* or a message of an unknown type, sends nothing, changes neither the HUD
\* state, the history nor the registry, and leaves the connection waiting
\* for its next frame.
C15_NoOpFrames ==
    [][\A c \in Chans :
         (Took(c) /\ task'[Ws(c)].pc # "done" /\ IsNoOp(task'[Ws(c)].msg)) =>
            /\ recv' = recv
            /\ hud' = hud
            /\ conversation_history' = conversation_history
            /\ active' = active
            /\ task'[Ws(c)].pc = "a_recv"]_vars

\* A connection took a frame that asks for nothing and then a
\* request_state, which was answered: it holds its two state events only.
C15_Witness ==
    \E c \in Chans :
        /\ task[Ws(c)].frames = 2
        /\ task[Ws(c)].msg = RequestFrame
        /\ task[Ws(c)].pc = "a_reqstate"
        /\ Len(recv[c]) = 2
        /\ recv[c][2].type = "state"
        /\ conversation_history = <<>>
        /\ hud = HudState

\* The REST task r has returned from a broadcast.
Returned(r) == task[Rest(r)].pc = "idle" /\ task[Rest(r)].bc.bid > 0

\* Channel d holds the event of broadcast number bid.
Holds(d, bid) == \E i \in 1..Len(recv[d]) : recv[d][i].bid = bid

\* C16: once an injection has returned, every channel that was registered
\* when its broadcast was made and is still connected holds its bot_reply
\* event.
C16_InjectionReachesAll ==
    \A r \in Rests :
        Returned(r) =>
            \A d \in Range(task[Rest(r)].bc.startReg) :
                (Running(d) /\ d \notin closed) => Holds(d, task[Rest(r)].bc.bid)

\* The rest of C16, which the code keeps: with no injection in progress
\* bot_reply_pending is null, and no other field and no history entry is
\* ever changed by injections.
C16_NothingPersisted ==
    /\ (\A r \in Rests : task[Rest(r)].pc = "idle") => hud.bot_reply_pending = None
    /\ \A f \in StateUpdateFields : hud[f] = HudState[f]
    /\ conversation_history = <<>>

\* The step is channel c's connect: its endpoint starts and reaches the
\* send of the state.
Connects(c) == task[Ws(c)].pc = "new" /\ task'[Ws(c)].pc # "new"

\* C17: a connect appends the channel to the registry, sends that channel
\* one state event carrying the HudState of the moment (none arrives when
\* the client has already gone), sends nothing to any other channel and
\* leaves the HUD state as it was.
C17_ConnectSyncsOnlyNewcomer ==
    [][\A c \in Chans :
         Connects(c) =>
            /\ active' = Append(active, c)
            /\ hud' = hud
            /\ \A d \in Chans \ {c} : recv'[d] = recv[d]
            /\ recv'[c] = IF task'[Ws(c)].bc.ok
                          THEN <<[type |-> "state", payload |-> hud, bid |-> 0]>>
                          ELSE <<>>]_vars

\* A second channel has just connected after a state update that the first
\* was sent: it holds the updated state and the registry holds both.
C17_Witness ==
    /\ active = <<1, 2>>
    /\ task[Ws(2)].pc = "a_state0"
    /\ hud # HudState
    /\ recv[2] = <<[type |-> "state", payload |-> hud, bid |-> 0]>>
    /\ Len(recv[1]) = 2

\* C19: a channel whose endpoint was ended by a fault (here, of the send
\* of the state right after registration) is not registered.
C19_FaultDeregisters ==
    \A c \in Chans : task[Ws(c)].pc = "crashed" => ~Registered(c)

MaintenanceDue(ago, until) == [tmpl |-> <<"maintenance_due", 1>>, args |-> <<ago, until>>]
MaintenanceOverdue(by) == [tmpl |-> <<"maintenance_overdue", 1>>, args |-> <<by>>]

\* C18: a maintenance query made days_since whole days after the last
\* maintenance (which was 7 days before the controller was built) is
\* answered "overdue by days_since - 30" when days_since > 30 and otherwise
\* "days_since days ago, next in 30 - days_since"; 7 days give 7 and 23,
\* 30 days give 30 and 0, 35 days give overdue by 5.
C18_MaintenanceReply ==
    [][DirectStep =>
         \E r \in Rests :
            LET days_since == now + 7
                reply == task'[Rest(r)].ret
            IN /\ task'[Rest(r)].ret_intent.intent = "maintenance"
               /\ days_since > 30 => reply = MaintenanceOverdue(days_since - 30)
               /\ days_since <= 30 => reply = MaintenanceDue(days_since, 30 - days_since)
               /\ days_since = 7 => reply = MaintenanceDue(7, 23)
               /\ days_since = 30 => reply = MaintenanceDue(30, 0)
               /\ days_since = 35 => reply = MaintenanceOverdue(5)
               /\ conversation_history'[Len(conversation_history')].bot = reply]_vars

\* A query was made on the 30th day and another on the 35th.
C18_Witness ==
    \E r \in Rests :
        /\ Len(conversation_history) = 2
        /\ conversation_history[1].bot = MaintenanceDue(30, 0)
        /\ task[Rest(r)].ret = MaintenanceOverdue(5)
        /\ now = 28

\* C20: once no broadcast is in progress, a channel that is registered and
\* was sent the event of every broadcast made so far holds, as its last
\* event, the current HudState.
C20_FanoutConverges ==
    Quiescent =>
        \A c \in Chans :
            (/\ Registered(c)
             /\ recv[c] # <<>>
             /\ \A b \in 1..(nextBid - 1) : Holds(c, b))
                => recv[c][Len(recv[c])].payload = hud

====
